---- MODULE Spec2Model ----
(***************************************************************************)
(* Model of polynomial.ipynb: the sampled linear program                   *)
(*     maximize c[1]  subject to  -1 <= p(x_j) <= 1,  p(x) = sum c[i] x^i  *)
(* built and solved by solve_degree_n, and the process-wide numpy random   *)
(* generator it draws its sample points from.                              *)
(*                                                                         *)
(* Reals are modelled exactly by rationals.  A sample point is k/GridDen   *)
(* with k in -GridDen..GridDen; a coefficient vector is a sequence of      *)
(* integer numerators over one positive denominator (index i+1 holds the   *)
(* coefficient of x^i).                                                    *)
(***************************************************************************)
EXTENDS Integers, Sequences, FiniteSets

\* ------------------------------------------------------------------ bounds
GridDen == 2       \* sample points are the multiples of 1/GridDen in [-1, 1]
StreamLen == 3     \* how many generator outputs one seeding is followed for
MaxDegree == 2     \* largest degree passed to solve_degree_n

\* ------------------------------------------------------- program constants
SEED == 1234               \* np.random.seed(1234)
DEFAULT_N_SAMPLE == 10000  \* n_sample=1e4, a Python float

Grid == (0 - GridDen)..GridDen
Degrees == (0 - 1)..MaxDegree

\* ------------------------------------------------------ integer arithmetic
Abs(a) == IF a < 0 THEN 0 - a ELSE a
Sgn(a) == IF a < 0 THEN 0 - 1 ELSE IF a > 0 THEN 1 ELSE 0

RECURSIVE Pow(_, _)
Pow(b, e) == IF e = 0 THEN 1 ELSE b * Pow(b, e - 1)

RECURSIVE GcdNat(_, _)
GcdNat(a, b) == IF b = 0 THEN a ELSE GcdNat(b, a % b)

Gcd(a, b) == GcdNat(Abs(a), Abs(b))

Lcm(a, b) == (Abs(a) \div Gcd(a, b)) * Abs(b)

RECURSIVE SetLcm(_)
SetLcm(S) ==
    IF S = {} THEN 1
    ELSE LET a == CHOOSE a \in S : TRUE IN Lcm(a, SetLcm(S \ {a}))

RECURSIVE SeqGcd(_)
SeqGcd(s) == IF s = <<>> THEN 0 ELSE Gcd(Head(s), SeqGcd(Tail(s)))

Range(s) == {s[i] : i \in DOMAIN s}

\* ------------------------------------------- polynomials with integer coefs
At(p, i) == IF i \in DOMAIN p THEN p[i] ELSE 0

\* p(x) * (GridDen * x - k)
PolyMulLin(p, k) ==
    [i \in 1..(Len(p) + 1) |-> GridDen * At(p, i - 1) - k * At(p, i)]

\* prod over k in S of (GridDen * x - k); its roots are the points k/GridDen
RECURSIVE ProdLin(_)
ProdLin(S) ==
    IF S = {} THEN <<1>>
    ELSE LET k == CHOOSE k \in S : TRUE IN PolyMulLin(ProdLin(S \ {k}), k)

Coef1(p) == At(p, 2)

RECURSIVE ProdDiff(_, _)
ProdDiff(k, S) ==
    IF S = {} THEN 1
    ELSE LET i == CHOOSE i \in S : TRUE IN (k - i) * ProdDiff(k, S \ {i})

\* sum over j in S of f[j], each f[j] a coefficient sequence of length len
PolySum(f, len) ==
    [i \in 1..len |->
        LET RECURSIVE Acc(_)
            Acc(T) == IF T = {} THEN 0
                      ELSE LET j == CHOOSE j \in T : TRUE
                           IN At(f[j], i) + Acc(T \ {j})
        IN Acc(DOMAIN f)]

\* a rational vector in lowest terms
Normalize(num, den) ==
    LET g == Gcd(SeqGcd(num), den)
    IN [num |-> [i \in DOMAIN num |-> num[i] \div g], den |-> den \div g]

\* ------------------------------------------------------- rational numbers
\* [num, den] with den > 0; Inf stands for the float inf cvxpy reports
Rat(a, b) == LET g == Gcd(a, b) IN [num |-> Sgn(b) * (a \div g), den |-> Abs(b) \div g]
RatLeq(p, q) == p.num * q.den <= q.num * p.den
Finite(r) == [kind |-> "finite", num |-> r.num, den |-> r.den]
Inf == [kind |-> "inf", num |-> 1, den |-> 1]
NoValue == [kind |-> "none", num |-> 0, den |-> 1]
\* v <= w for objective values (a finite value or +inf)
ValueLeq(v, w) ==
    \/ w.kind = "inf"
    \/ v.kind = "finite" /\ w.kind = "finite" /\ RatLeq(v, w)

\* ----------------------------------------- pol_calc (line 44-45) and line 51
\* sum(c[i] * x**i) at x = k/GridDen is linear in c: the coefficient of c[i]
\* is k^i / GridDen^i, kept here as the integer k^i * GridDen^(n-i) over the
\* common scale GridDen^n.
LinExpr(n, k) ==
    [x |-> k,
     coef |-> [i \in 1..(n + 1) |-> Pow(k, i - 1) * Pow(GridDen, n - (i - 1))],
     scale |-> Pow(GridDen, n)]

pol_calc(n, x) == [j \in 1..Len(x) |-> LinExpr(n, x[j])]

LowerLimits(pol_x) == [j \in 1..Len(pol_x) |-> [lhs |-> pol_x[j], op |-> ">=", rhs |-> 0 - 1]]
UpperLimits(pol_x) == [j \in 1..Len(pol_x) |-> [lhs |-> pol_x[j], op |-> "<=", rhs |-> 1]]

\* variant: the upper limits are left out
BuildLowerLimitsOnly(pol_x) == LowerLimits(pol_x)

\* variant: the last sample point gets no constraints
BuildAllButLast(pol_x) ==
    LowerLimits(SubSeq(pol_x, 1, Len(pol_x) - 1))
        \o UpperLimits(SubSeq(pol_x, 1, Len(pol_x) - 1))

\* [px_i>=-1 for px_i in pol_x] + [px_i<=1 for px_i in pol_x]
BuildConstraints(pol_x) == LowerLimits(pol_x) \o UpperLimits(pol_x)

RECURSIVE Dot(_, _, _)
Dot(a, b, i) == IF i = 0 THEN 0 ELSE a[i] * b[i] + Dot(a, b, i - 1)

\* does the coefficient vector c = [num, den] satisfy the constraint?
Satisfies(c, con) ==
    LET lhs == Dot(con.lhs.coef, c.num, Len(c.num))
        rhs == con.rhs * c.den * con.lhs.scale
    IN IF con.op = ">=" THEN lhs >= rhs ELSE lhs <= rhs

Feasible(c, constraints) ==
    \A j \in DOMAIN constraints : Satisfies(c, constraints[j])

ZeroVector(n) == [num |-> [i \in 1..(n + 1) |-> 0], den |-> 1]

\* --------------------------------------------- the LP solve (line 53-54)
\* Lagrange basis over the points S: L_j = LagrangeNum(S, j) / LagrangeDen(S, j)
LagrangeNum(S, j) == ProdLin(S \ {j})
LagrangeDen(S, j) == ProdDiff(j, S \ {j})

\* derivative at 0 of L_j: p'(0) = sum_j DerivWeight(S, j) * p(x_j) for every
\* polynomial p of degree < |S|
DerivWeight(S, j) == Rat(Coef1(LagrangeNum(S, j)), LagrangeDen(S, j))

\* the polynomial of degree < |S| taking the value v[j] at each point j of S,
\* as a coefficient vector of length n + 1
Interpolate(S, v, n) ==
    LET den == SetLcm({LagrangeDen(S, j) : j \in S})
        term(j) == LET m == v[j] * Sgn(LagrangeDen(S, j)) * (den \div Abs(LagrangeDen(S, j)))
                       N == LagrangeNum(S, j)
                   IN [i \in 1..(n + 1) |-> m * At(N, i)]
    IN Normalize(PolySum([j \in S |-> term(j)], n + 1), den)

ObjectiveOf(c) == Rat(c.num[2], c.den)

\* the vertices of the feasible polytope: n + 1 of the sampled bounds active
Vertices(n, D, constraints) ==
    LET cand == UNION {{Interpolate(S, s, n) : s \in [S -> {0 - 1, 1}]} :
                        S \in {T \in SUBSET D : Cardinality(T) = n + 1}}
    IN {c \in cand : Feasible(c, constraints)}

\* variant: cp.Minimize(C[1])
Minimize(V) == {c \in V : \A d \in V : RatLeq(ObjectiveOf(c), ObjectiveOf(d))}

\* cp.Maximize(C[1]): the candidates with the largest objective
Maximize(V) == {c \in V : \A d \in V : RatLeq(ObjectiveOf(d), ObjectiveOf(c))}

\* Outcome of the LP  maximize C[1] subject to constraints  for n >= 1, where
\* D is the set of distinct sample points.
\*  - fewer than n distinct points, or exactly n whose product polynomial has
\*    a linear term: some polynomial vanishing on D has c[1] # 0: unbounded;
\*  - exactly n points otherwise: c[1] is the derivative-at-0 functional on
\*    the interpolants, maximal where p(x_j) is the sign of its weight;
\*  - more than n points: the feasible set is a polytope, the maximum is
\*    attained at a vertex.
LPSolve(n, constraints) ==
    LET D == {constraints[j].lhs.x : j \in DOMAIN constraints}
        card == Cardinality(D)
    IN IF card < n \/ (card = n /\ Coef1(ProdLin(D)) # 0)
       THEN [status |-> "unbounded", value |-> Inf, solutions |-> {}]
       ELSE IF card = n
       THEN LET c == Interpolate(D, [j \in D |-> Sgn(DerivWeight(D, j).num)], n)
            IN [status |-> "optimal", value |-> Finite(ObjectiveOf(c)), solutions |-> {c}]
       ELSE LET V == Vertices(n, D, constraints)
                best == Maximize(V)
                c0 == CHOOSE c \in best : TRUE
            IN [status |-> "optimal", value |-> Finite(ObjectiveOf(c0)), solutions |-> best]

\* ------------------------------------- the process-wide random generator
\* The generator state is the seed and how many outputs were consumed since
\* seeding; stream is the output sequence the generator produces for SEED.
\* variant: seeding keeps the position in the stream
np_random_seed_keeps_position(g, seed) == [g EXCEPT !.seed = seed]

np_random_seed(g, seed) == [seed |-> seed, pos |-> 0]

\* variant: drawing does not advance the generator
np_random_uniform_no_advance(g, strm, m) ==
    [x |-> [i \in 1..m |-> strm[g.pos + i]], rng |-> g]

\* np.random.uniform(-1, 1, m): the next m outputs, and the advanced state
np_random_uniform(g, strm, m) ==
    [x |-> [i \in 1..m |-> strm[g.pos + i]],
     rng |-> [g EXCEPT !.pos = @ + m]]

\* a linear congruential stand-in for the generator numpy seeds with SEED
LcgNext(s) == (75 * s + 74) % 65537

RECURSIVE LcgState(_, _)
LcgState(seed, i) == IF i = 0 THEN seed % 65537 ELSE LcgNext(LcgState(seed, i - 1))

SeededStream(seed) ==
    [i \in 1..StreamLen |-> (LcgState(seed, i) % (2 * GridDen + 1)) - GridDen]

\* --------------------------------------------------------------- the state
VARIABLES
    stream,    \* outputs of the generator after np.random.seed(SEED)
    rng,       \* state of the process-wide generator
    last,      \* the most recent call of solve_degree_n, as its caller sees it
    drawLog,   \* sample draws of the calls since the last seeding
    prevLog    \* sample draws of the calls between the two last seedings

vars == <<stream, rng, last, drawLog, prevLog>>

IntArg(m) == [isfloat |-> FALSE, val |-> m]
\* the default n_sample=1e4 is a float
DefaultArg == [isfloat |-> TRUE, val |-> DEFAULT_N_SAMPLE]

None == [isNone |-> TRUE, vec |-> [num |-> <<>>, den |-> 1]]
Array(c) == [isNone |-> FALSE, vec |-> c]

NoCall ==
    [called |-> FALSE, n |-> 0, n_sample |-> IntArg(0), defaulted |-> FALSE,
     verbose |-> FALSE, steps |-> <<>>, outcome |-> "none",
     x |-> <<>>, constraints |-> <<>>, status |-> "none", value |-> NoValue,
     C_value |-> None, printed |-> <<>>, ret |-> [raised |-> TRUE]]

\* variant: C.value holds an (empty) array when no optimum was found
C_values_never_None(lp) ==
    IF lp.status = "optimal" THEN {[isNone |-> FALSE, vec |-> c] : c \in lp.solutions}
    ELSE {[isNone |-> FALSE, vec |-> [num |-> <<>>, den |-> 1]]}

\* C.value after the solve: an optimal vertex, or None when there is none
C_values(lp) ==
    IF lp.status = "optimal" THEN {Array(c) : c \in lp.solutions} ELSE {None}

\* variant: the prints are not guarded by verbose
PrintAlways(verbose, status, value) == <<[status |-> status, value |-> value]>>

\* if verbose: print(problem.status); print(problem.value)
Print_(verbose, status, value) ==
    IF verbose THEN <<[status |-> status, value |-> value]>> ELSE <<>>

\* return C.value
ReturnValue(cv, status, value) == [coefficient_vector |-> cv]

\* Everything one call solve_degree_n(n, n_sample, verbose) can do from the
\* generator state g: the set of [call, rng] pairs.  steps lists the
\* statements that completed; outcome is "returned" or the exception raised
\* by the statement after them.
solve_degree_n(n, ns, defaulted, verbose, g, strm) ==
    LET call0 == [NoCall EXCEPT !.called = TRUE, !.n = n, !.n_sample = ns,
                                !.defaulted = defaulted, !.verbose = verbose]
    IN
    \* C = cp.Variable((n+1)): a dimension must be positive
    IF n + 1 <= 0
    THEN {[call |-> [call0 EXCEPT !.outcome = "ValueError"], rng |-> g]}
    ELSE
    \* x = np.random.uniform(-1,1,n_sample): the size must be an integer
    IF ns.isfloat
    THEN {[call |-> [call0 EXCEPT !.steps = <<"Variable">>,
                                  !.outcome = "TypeError"], rng |-> g]}
    ELSE
    LET drawn == np_random_uniform(g, strm, ns.val)
        x == drawn.x
        call1 == [call0 EXCEPT !.steps = <<"Variable", "uniform">>, !.x = x]
        \* pol_x = pol_calc(C, x): cvxpy versions differ on whether a
        \* constant of shape (0,) is a valid operand
        rejected == IF Len(x) = 0
                    THEN {[call |-> [call1 EXCEPT !.outcome = "ValueError"],
                           rng |-> drawn.rng]}
                    ELSE {}
        pol_x == pol_calc(n, x)
        constraints == BuildConstraints(pol_x)
        call2 == [call1 EXCEPT !.steps = @ \o <<"pol_calc", "constraints">>,
                               !.constraints = constraints]
        \* cp.Maximize(C[1]): index 1 must exist in a vector of n + 1 entries
        built == IF n + 1 <= 1
                 THEN {[call |-> [call2 EXCEPT !.outcome = "IndexError"],
                        rng |-> drawn.rng]}
                 ELSE LET lp == LPSolve(n, constraints)
                      IN {[call |-> [call2 EXCEPT
                               !.steps = @ \o <<"Problem", "solve">>,
                               !.outcome = "returned",
                               !.status = lp.status,
                               !.value = lp.value,
                               !.C_value = cv,
                               !.printed = Print_(verbose, lp.status, lp.value),
                               !.ret = ReturnValue(cv, lp.status, lp.value)],
                           rng |-> drawn.rng] : cv \in C_values(lp)}
    IN rejected \cup built

\* ------------------------------------------------------------------ actions
NSamples == {IntArg(m) : m \in 0..StreamLen}

LogDraw(log, call) ==
    IF "uniform" \in Range(call.steps) /\ Len(call.x) > 0
    THEN Append(log, [n_sample |-> Len(call.x), x |-> call.x])
    ELSE log

\* a caller (a notebook cell, the demonstration loop) calls solve_degree_n
Call(n, ns, defaulted, verbose) ==
    \E r \in solve_degree_n(n, ns, defaulted, verbose, rng, stream) :
        /\ last' = r.call
        /\ rng' = r.rng
        /\ drawLog' = LogDraw(drawLog, r.call)

\* solve_degree_n(n, n_sample, verbose), as the demonstration loop calls it;
\* the stream is followed for StreamLen outputs only
CallWithSampleCount ==
    \E n \in Degrees, ns \in NSamples, verbose \in BOOLEAN :
        /\ rng.pos + ns.val <= StreamLen
        /\ Call(n, ns, FALSE, verbose)
        /\ UNCHANGED <<stream, prevLog>>

\* solve_degree_n(n) or solve_degree_n(n, verbose=...): n_sample defaults
CallWithDefault ==
    \E n \in Degrees, verbose \in BOOLEAN :
        /\ Call(n, DefaultArg, TRUE, verbose)
        /\ UNCHANGED <<stream, prevLog>>

\* the first cell is run again: np.random.seed(1234)
RunSeedCell ==
    /\ rng' = np_random_seed(rng, SEED)
    /\ prevLog' = drawLog
    /\ drawLog' = <<>>
    /\ last' = NoCall
    /\ UNCHANGED stream

InitCommon ==
    /\ rng = np_random_seed([seed |-> 0, pos |-> 0], SEED)
    /\ last = NoCall
    /\ drawLog = <<>>
    /\ prevLog = <<>>

\* the notebook process: the first cell has run
Init ==
    /\ stream = SeededStream(SEED)
    /\ InitCommon

Next == CallWithSampleCount \/ CallWithDefault \/ RunSeedCell

Spec == Init /\ [][Next]_vars

\* one call on an arbitrary sample sequence: every sequence of StreamLen
\* grid points stands for a generator output
InitLP ==
    /\ stream \in [1..StreamLen -> Grid]
    /\ InitCommon

FirstCallWithSampleCount == ~last.called /\ CallWithSampleCount
FirstCallWithDefault == ~last.called /\ CallWithDefault

NextLP == FirstCallWithSampleCount \/ FirstCallWithDefault

SpecLP == InitLP /\ [][NextLP]_vars

\* ================================================================== claims
Solved == last.outcome = "returned"
Sampled == "uniform" \in Range(last.steps)
Built == "constraints" \in Range(last.steps)
IntSamples(lo) == ~last.n_sample.isfloat /\ last.n_sample.val >= lo
Zero == Finite(Rat(0, 1))
Min(a, b) == IF a <= b THEN a ELSE b

\* the objective the same call reaches on the sample sequence xs
ObjectiveFor(n, xs) == LPSolve(n, BuildConstraints(pol_calc(n, xs))).value

RECURSIVE DrawnBefore(_, _)
\* how many points the first i - 1 draws of the log consumed
DrawnBefore(log, i) ==
    IF i <= 1 THEN 0 ELSE log[i - 1].n_sample + DrawnBefore(log, i - 1)

\* C1 (as claimed): for every degree >= 0 and every sample_count >= 1 the
\* zero vector satisfies every constraint built, the LP is not infeasible and
\* the solve completes with an objective >= 0.
C1_ZeroFeasibleSolveCompletes ==
    (last.called /\ last.n >= 0 /\ IntSamples(1)) =>
        /\ Feasible(ZeroVector(last.n), last.constraints)
        /\ Solved
        /\ last.status # "infeasible"
        /\ ValueLeq(Zero, last.value)

\* C2 (as claimed): the return value is the triple (coefficient_vector,
\* status, objective_value), whatever verbose is.
C2_ReturnsTriple ==
    Solved => DOMAIN last.ret = {"coefficient_vector", "status", "objective_value"}

\* C2 (amended): the return value is the coefficient vector C.value alone;
\* status and objective are printed when verbose is true and are otherwise
\* not handed to the caller at all.
C2_ReturnsVectorOnly ==
    Solved =>
        /\ DOMAIN last.ret = {"coefficient_vector"}
        /\ last.ret.coefficient_vector = last.C_value
        /\ last.printed = IF last.verbose
                          THEN <<[status |-> last.status, value |-> last.value]>>
                          ELSE <<>>

C2_Witness == Solved /\ ~last.verbose /\ last.status = "optimal"

FailureStatus == last.status \in {"infeasible", "unbounded"}
StatusPrinted == \E i \in DOMAIN last.printed : last.printed[i].status = last.status

\* C3 (as claimed): a status infeasible or unbounded is reported to the
\* caller, with verbose=False as well as with verbose=True.
C3_StatusReported ==
    FailureStatus => (StatusPrinted \/ "status" \in DOMAIN last.ret)

\* C3 (amended): when the solver ends infeasible or unbounded the caller gets
\* None for the coefficient vector; the status itself is printed exactly when
\* verbose is true, so with verbose=False it is not reported.
C3_FailureStatusPrintedIffVerbose ==
    FailureStatus =>
        /\ Solved
        /\ last.ret.coefficient_vector = None
        /\ StatusPrinted <=> last.verbose

C3_Witness == last.status = "unbounded" /\ ~last.verbose /\ Solved

Malformed == last.n < 0 \/ (~last.n_sample.isfloat /\ last.n_sample.val = 0)

\* C4 (as claimed): a call with a negative degree or with sample_count = 0
\* raises an invalid-argument error before sampling, constraint construction
\* or the LP solve.
C4_MalformedInputFailsFast ==
    (last.called /\ Malformed) =>
        /\ last.outcome \in {"ValueError", "TypeError"}
        /\ Range(last.steps) \cap {"uniform", "pol_calc", "constraints", "Problem", "solve"} = {}

C6_DrawIndependentOfEarlierCalls ==
    \A i, j \in DOMAIN drawLog :
        drawLog[i].n_sample = drawLog[j].n_sample => drawLog[i].x = drawLog[j].x

\* C6 (amended): the calls share the process-wide generator: a call draws the
\* next n_sample outputs after those the earlier calls since seeding drew, so
\* its sample set depends on how many points they drew and on nothing else.
C6_DrawFollowsEarlierDraws ==
    \A i \in DOMAIN drawLog :
        drawLog[i].x = [k \in 1..drawLog[i].n_sample |->
                            stream[DrawnBefore(drawLog, i) + k]]

C6_Witness ==
    /\ Len(drawLog) >= 2
    /\ drawLog[1].n_sample = drawLog[2].n_sample
    /\ drawLog[1].x # drawLog[2].x

\* C7: whatever the degree, the constraints are a lower bound -1 and an upper
\* bound 1 on p(x_j) for each of the n_sample points, 2 * n_sample in all,
\* each over the n + 1 unknowns.
C7_TwoConstraintsPerSample ==
    Built =>
        LET m == last.n_sample.val IN
        /\ Len(last.x) = m
        /\ Len(last.constraints) = 2 * m
        /\ \A j \in 1..m :
              /\ last.constraints[j] =
                    [lhs |-> LinExpr(last.n, last.x[j]), op |-> ">=", rhs |-> 0 - 1]
              /\ last.constraints[m + j] =
                    [lhs |-> LinExpr(last.n, last.x[j]), op |-> "<=", rhs |-> 1]
              /\ Len(last.constraints[j].lhs.coef) = last.n + 1

C7_Witness == Built /\ last.n >= 2 /\ Len(last.x) >= 2 /\ Len(last.constraints) = 2 * Len(last.x)

\* C8 (as claimed): extending the sample set does not lower the objective:
\* the objective on the first k points is at most the objective on all.
C8_ObjectiveNonDecreasing ==
    Solved => \A k \in 1..Len(last.x) :
                  ValueLeq(ObjectiveFor(last.n, SubSeq(last.x, 1, k)), last.value)

\* C8 (amended): extending the sample set does not raise the objective: the
\* objective on all points is at most the objective on the first k.
C8_ObjectiveNonIncreasing ==
    Solved => \A k \in 1..Len(last.x) :
                  ValueLeq(last.value, ObjectiveFor(last.n, SubSeq(last.x, 1, k)))

C8_Witness ==
    /\ Solved /\ last.status = "optimal"
    /\ \E k \in 1..Len(last.x) :
          LET v == ObjectiveFor(last.n, SubSeq(last.x, 1, k))
          IN v.kind = "finite" /\ ~ValueLeq(v, last.value)

\* C9 (as claimed): for degree >= 1 and sample_count >= 1 the solver never
\* ends unbounded and a coefficient vector is returned.
C9_NeverUnbounded ==
    (last.called /\ last.n >= 1 /\ IntSamples(1)) =>
        /\ Solved
        /\ last.status # "unbounded"
        /\ ~last.ret.coefficient_vector.isNone

\* C9 (amended): for degree >= 1 the LP is bounded whenever the sample points
\* have more than degree distinct values: the solver ends optimal and returns
\* a feasible coefficient vector whose c[1] is the objective.
C9_BoundedOnEnoughDistinctPoints ==
    (last.called /\ last.n >= 1 /\ Sampled
                 /\ Cardinality(Range(last.x)) >= last.n + 1) =>
        /\ Solved
        /\ last.status = "optimal"
        /\ ~last.ret.coefficient_vector.isNone
        /\ Feasible(last.ret.coefficient_vector.vec, last.constraints)
        /\ Finite(ObjectiveOf(last.ret.coefficient_vector.vec)) = last.value

C9_Witness ==
    /\ Solved /\ last.n = 2 /\ Cardinality(Range(last.x)) = 3
    /\ last.status = "optimal"

\* C10 (as claimed): a call without sample_count succeeds and draws exactly
\* 10,000 sample points.
C10_DefaultDrawsTenThousand ==
    (last.called /\ last.defaulted /\ last.n >= 1) =>
        /\ Solved
        /\ Len(last.x) = DEFAULT_N_SAMPLE

====
